---- MODULE Spec2Model ----
(***************************************************************************)
(* Model of scripts/prepare_metrics.py: the batch job that scans the WFDB  *)
(* header files, tallies SNOMED codes, classifies records and writes the   *)
(* dashboard's JSON/CSV artifacts.                                         *)
(*                                                                         *)
(* A text line is a sequence of lexemes: a marker ("#Dx:" or "#") when it  *)
(* starts with one, then maximal runs of non-separator characters and the  *)
(* separator characters themselves.  An ordered dict (dict, Counter,       *)
(* defaultdict) is a sequence of entries in insertion order.  A file of    *)
(* the output directory is [st, body]: st is "absent", "stale" (left by    *)
(* something before this program started) or "written".                   *)
(***************************************************************************)
EXTENDS Integers, Sequences, FiniteSets, TLC

VARIABLES
    hea,            \* the *.hea files under WFDBRecords, in rglob order
    cond,           \* ConditionNames_SNOMED-CT.csv: [exists, codes]
    topn,           \* args.topn
    out,            \* the files of the output directory
    outdir,         \* whether the output directory exists
    pc,             \* position in the script
    i,              \* index of the running for loop
    all_codes,      \* set(conditions["Snomed_CT"])
    codes_all,      \* list of every code token met
    found_codes,    \* set of the code tokens met
    metrics,        \* the metrics dict
    freq,           \* Counter(codes_all)
    stats,          \* fs_counts, lead_counts, dur_secs, bad_headers
    record_codes,   \* defaultdict(set): rec_id -> codes
    tally,          \* the n_*, b_* and a_* counters
    arr_per_code,   \* Counter of arrhythmia codes
    argsort,        \* what the library's quicksort argsort returned so far, per key list
    run,            \* number of the current run of the script
    prev,           \* exit state and output directory of the previous run
    dash            \* the dashboard: how its start went and what render_example_png returned

vars == <<hea, cond, topn, out, outdir, pc, i, all_codes, codes_all, found_codes,
          metrics, freq, stats, record_codes, tally, arr_per_code, argsort, run, prev,
          dash>>

inputs == <<hea, cond, topn>>

----------------------------------------------------------------------------
(* Bounds *)

MaxFiles == 2
MaxTopN == 2
MaxRuns == 2

----------------------------------------------------------------------------
(* The fixed reference sets *)

SINUS_RHYTHM == {"426783006"}

BORDERLINE_ONLY == {"426177001", "427084000", "427393009"}

AF_AFL == {"164889003", "164890007", "713422000"}

BLOCKS == {"270492004", "195042002", "54016002", "28189009", "27885002",
           "698252002", "59118001", "164909002", "233917008", "233897008", "426761007"}

ST_T == {"429622005", "164930006", "164931005", "428750005", "164934002", "59931005"}

----------------------------------------------------------------------------
(* Sequences and ordered dicts *)

Max(a, b) == IF a >= b THEN a ELSE b

Min(a, b) == IF a <= b THEN a ELSE b

Range(s) == {s[n] : n \in 1..Len(s)}

RECURSIVE Sum(_)
Sum(s) == IF s = <<>> THEN 0 ELSE Head(s) + Sum(Tail(s))

\* d[k], 0 when k is no key
Get(d, k) == IF \E n \in 1..Len(d) : d[n][1] = k
             THEN (CHOOSE e \in Range(d) : e[1] = k)[2]
             ELSE 0

Keys(d) == {d[n][1] : n \in 1..Len(d)}

\* counter[k] += 1: a new key goes last
Inc(d, k) == IF k \in Keys(d)
             THEN [n \in 1..Len(d) |-> IF d[n][1] = k THEN <<k, d[n][2] + 1>> ELSE d[n]]
             ELSE Append(d, <<k, 1>>)

RECURSIVE Counter(_)
Counter(s) == IF s = <<>> THEN <<>>
              ELSE Inc(Counter(SubSeq(s, 1, Len(s) - 1)), s[Len(s)])

\* max(d, key=d.get) if d else None: the first key holding the greatest count
Modal(d) == IF d = <<>> THEN <<>>
            ELSE LET n == CHOOSE n \in 1..Len(d) :
                              /\ \A m \in 1..Len(d) : d[m][2] <= d[n][2]
                              /\ \A m \in 1..(n - 1) : d[m][2] < d[n][2]
                 IN <<d[n][1]>>

\* every order in which the elements of a set can be iterated
RECURSIVE Orders(_)
Orders(S) == IF S = {} THEN {<<>>}
             ELSE UNION {{<<x>> \o s : s \in Orders(S \ {x})} : x \in S}

----------------------------------------------------------------------------
(* Text *)

StartsWithDx(line) == Len(line) > 0 /\ line[1] = "#Dx:"

StartsWithHash(line) == Len(line) > 0 /\ line[1] \in {"#Dx:", "#"}

\* the non-empty pieces between runs of separators
SplitOn(line, seps) == SelectSeq(line, LAMBDA x : x \notin seps)

\* [c.strip() for c in re.split(r"[,:\s]+", line.split(":", 1)[1]) if c.strip()]
DxCodes(line) == SplitOn(Tail(line), {",", ":", " "})

RECURSIVE FileCodes(_)
FileCodes(lines) ==
    IF lines = <<>> THEN <<>>
    ELSE (IF StartsWithDx(Head(lines)) THEN DxCodes(Head(lines)) ELSE <<>>)
         \o FileCodes(Tail(lines))

RECURSIVE CollectCodes(_)
CollectCodes(files) ==
    IF files = <<>> THEN <<>>
    ELSE FileCodes(Head(files).lines) \o CollectCodes(Tail(files))

\* int(s) and float(s) on the numerals the headers of the model hold
NumVal == ("0" :> 0) @@ ("1" :> 1) @@ ("12" :> 12) @@ ("250" :> 250)
          @@ ("500" :> 500) @@ ("5000" :> 5000)

IsNum(s) == s \in DOMAIN NumVal

----------------------------------------------------------------------------
(* Header parsing: fs, leads, durations *)

NonComment(lines) == SelectSeq(lines, LAMBDA l : ~StartsWithHash(l))

Bad(st) == [st EXCEPT !.bad_headers = @ + 1]

\* ParseHeader with a header of comment lines only passed over, not counted
ParseHeaderSkipsEmpty(st, f) ==
    LET nc == NonComment(f.lines) IN
    IF nc = <<>> THEN st
    ELSE LET parts == SplitOn(nc[1], {" "}) IN
         IF Len(parts) < 2 \/ ~IsNum(parts[2]) THEN Bad(st)
         ELSE IF Len(parts) < 3 \/ ~IsNum(parts[3]) THEN Bad(st)
         ELSE IF Len(parts) < 4 \/ ~IsNum(parts[4]) THEN Bad(st)
         ELSE LET n_sig == NumVal[parts[2]]
                  fs    == NumVal[parts[3]]
                  nsamp == NumVal[parts[4]]
                  st1   == [st EXCEPT !.lead_counts = Inc(@, n_sig),
                                      !.fs_counts = Inc(@, fs)]
              IN IF fs = 0 THEN Bad(st1)
                 ELSE [st1 EXCEPT !.dur_secs = Append(@, nsamp \div fs)]

\* One pass of the try block over one header.  Any exception counts the
\* header as bad; what ran before the exception stays done.
ParseHeader(st, f) ==
    LET nc == NonComment(f.lines) IN
    IF nc = <<>> THEN Bad(st)                               \* next() raises StopIteration
    ELSE LET parts == SplitOn(nc[1], {" "}) IN              \* first.split()
         IF Len(parts) < 2 \/ ~IsNum(parts[2]) THEN Bad(st)  \* int(parts[1])
         ELSE IF Len(parts) < 3 \/ ~IsNum(parts[3]) THEN Bad(st)  \* float(parts[2])
         ELSE IF Len(parts) < 4 \/ ~IsNum(parts[4]) THEN Bad(st)  \* int(parts[3])
         ELSE LET n_sig == NumVal[parts[2]]
                  fs    == NumVal[parts[3]]
                  nsamp == NumVal[parts[4]]
                  st1   == [st EXCEPT !.lead_counts = Inc(@, n_sig),
                                      !.fs_counts = Inc(@, fs)]
              IN IF fs = 0 THEN Bad(st1)                    \* nsamp / fs raises ZeroDivisionError
                 ELSE [st1 EXCEPT !.dur_secs = Append(@, nsamp \div fs)]

\* len(hea_stems & mat_stems)
TotalRecordings(files) ==
    Cardinality({files[n].stem : n \in 1..Len(files)}
                \cap {files[n].stem : n \in {m \in 1..Len(files) : files[m].mat}})

\* f"{h:02d}:{m:02d}:{s:02d}"
Hms(t) == <<t \div 3600, (t % 3600) \div 60, t % 60>>

\* the keys metrics.update adds
MetricsUpdate(files, st) ==
    [total_recordings       |-> TotalRecordings(files),
     parsed_headers         |-> Len(st.dur_secs),
     bad_headers            |-> st.bad_headers,
     modal_fs_hz            |-> Modal(st.fs_counts),
     modal_leads            |-> Modal(st.lead_counts),
     total_duration_seconds |-> Sum(st.dur_secs),
     total_duration_hms     |-> Hms(Sum(st.dur_secs))]

----------------------------------------------------------------------------
(* Coverage of the mapping *)

\* Coverage with the two set differences swapped
CoverageSwapped(found, listed) ==
    [n_found   |-> Cardinality(found),
     n_listed  |-> Cardinality(listed),
     n_missing |-> Cardinality(found \ listed),
     n_extra   |-> Cardinality(listed \ found)]

Coverage(found, listed) ==
    [n_found   |-> Cardinality(found),
     n_listed  |-> Cardinality(listed),
     n_missing |-> Cardinality(listed \ found),
     n_extra   |-> Cardinality(found \ listed)]

----------------------------------------------------------------------------
(* Sorting by count, descending *)

\* The index lists a correct argsort of the keys, descending, may return:
\* quicksort is not stable, so equal keys come in any order.
RECURSIVE SortedIndexLists(_, _)
SortedIndexLists(keys, left) ==
    IF left = {} THEN {<<>>}
    ELSE LET top == {n \in left : \A m \in left : keys[m] <= keys[n]}
         IN UNION {{<<n>> \o s : s \in SortedIndexLists(keys, left \ {n})} : n \in top}

CountsOf(d) == [n \in 1..Len(d) |-> d[n][2]]

\* What sort_values may answer for these keys: the answer given before for the
\* same keys (one library build sorts equal input equally), else any answer.
Answers(memo, keys) ==
    IF \E e \in memo : e[1] = keys
    THEN {e[2] : e \in {x \in memo : x[1] = keys}}
    ELSE SortedIndexLists(keys, 1..Len(keys))

Reorder(d, perm) == [n \in 1..Len(perm) |-> d[perm[n]]]

\* HeadRows keeping the last rows instead of the first (tail for head)
HeadRowsTail(rows, n) ==
    IF n >= 0 THEN SubSeq(rows, Len(rows) - Min(n, Len(rows)) + 1, Len(rows))
    ELSE SubSeq(rows, Min(Len(rows), -n) + 1, Len(rows))

\* df.head(n) is df.iloc[:n]: a negative n drops the last -n rows
HeadRows(rows, n) ==
    IF n >= 0 THEN SubSeq(rows, 1, Min(n, Len(rows)))
    ELSE SubSeq(rows, 1, Max(0, Len(rows) + n))

\* d["Snomed_CT"].map(code2name).fillna("(unmapped)")
NameOf(code, listed) == IF code \in listed THEN <<"name of", code>> ELSE <<"(unmapped)">>

TopRow(e, listed) ==
    [Snomed_CT |-> e[1], count |-> e[2], name |-> NameOf(e[1], listed),
     status |-> IF e[1] \in listed THEN "Mapped" ELSE "Unmapped"]

TopDf(fr, perm, n, listed) ==
    LET kept == HeadRows(Reorder(fr, perm), n)
    IN [r \in 1..Len(kept) |-> TopRow(kept[r], listed)]

ArrRow(e, listed) ==
    [Snomed_CT |-> e[1], count |-> e[2], Full_Name |-> NameOf(e[1], listed)]

ArrDf(apc, perm, listed) ==
    LET sorted == Reorder(apc, perm)
    IN [r \in 1..Len(sorted) |-> ArrRow(sorted[r], listed)]

----------------------------------------------------------------------------
(* Per-record code sets *)

HasKey(rc, id) == \E n \in 1..Len(rc) : rc[n].id = id

\* record_codes[rec_id].update(cs): the defaultdict makes the key when it is missing
Update(rc, id, cs) ==
    IF HasKey(rc, id)
    THEN [n \in 1..Len(rc) |->
             IF rc[n].id = id THEN [rc[n] EXCEPT !.codes = @ \cup Range(cs)] ELSE rc[n]]
    ELSE Append(rc, [id |-> id, codes |-> Range(cs)])

RECURSIVE UpdateFromLines(_, _, _)
UpdateFromLines(rc, id, lines) ==
    IF lines = <<>> THEN rc
    ELSE UpdateFromLines(
             IF StartsWithDx(Head(lines)) THEN Update(rc, id, DxCodes(Head(lines))) ELSE rc,
             id, Tail(lines))

RECURSIVE BuildRecordCodes(_, _)
BuildRecordCodes(rc, files) ==
    IF files = <<>> THEN rc
    ELSE BuildRecordCodes(UpdateFromLines(rc, Head(files).stem, Head(files).lines),
                          Tail(files))

----------------------------------------------------------------------------
(* Classification and tallies *)

\* Category with Normal tested as a superset instead of equality
CategoryNormalSuperset(cset) ==
    IF cset = {} THEN "Unlabeled"
    ELSE IF SINUS_RHYTHM \subseteq cset THEN "Normal"
    ELSE IF cset \subseteq BORDERLINE_ONLY THEN "Borderline"
    ELSE "Arrhythmia"

\* Category with Borderline tested as an overlap instead of a subset
CategoryBorderlineOverlap(cset) ==
    IF cset = {} THEN "Unlabeled"
    ELSE IF cset = SINUS_RHYTHM THEN "Normal"
    ELSE IF cset \cap BORDERLINE_ONLY # {} THEN "Borderline"
    ELSE "Arrhythmia"

\* the branch the tally loop takes for a code set
Category(cset) ==
    IF cset = {} THEN "Unlabeled"
    ELSE IF cset = SINUS_RHYTHM THEN "Normal"
    ELSE IF cset \subseteq BORDERLINE_ONLY THEN "Borderline"
    ELSE "Arrhythmia"

\* the branch of the if/elif chain on the arrhythmia groups
\* SubBucket with the Blocks test ahead of the AF/AFL test
SubBucketBlocksFirst(cset) ==
    IF cset \cap BLOCKS # {} THEN "Blocks"
    ELSE IF cset \cap AF_AFL # {} THEN "AF/AFL"
    ELSE IF cset \cap ST_T # {} THEN "ST/T changes"
    ELSE "Other"

SubBucket(cset) ==
    IF cset \cap AF_AFL # {} THEN "AF/AFL"
    ELSE IF cset \cap BLOCKS # {} THEN "Blocks"
    ELSE IF cset \cap ST_T # {} THEN "ST/T changes"
    ELSE "Other"

B(cond_) == IF cond_ THEN 1 ELSE 0

ZeroTally ==
    [n_normal |-> 0, n_border |-> 0, n_arr |-> 0, n_unlabeled |-> 0,
     b_brady |-> 0, b_tachy |-> 0, b_irreg |-> 0,
     a_afafl |-> 0, a_blocks |-> 0, a_stt |-> 0]

\* TallyRecord with the continue of the Borderline branch missing
TallyRecordFallThrough(t, cset) ==
    [t EXCEPT !.n_unlabeled = @ + IF cset = {} THEN 1 ELSE 0,
              !.n_normal = @ + IF cset = SINUS_RHYTHM THEN 1 ELSE 0,
              !.n_border = @ + IF cset # {} /\ cset \subseteq BORDERLINE_ONLY THEN 1 ELSE 0,
              !.n_arr = @ + IF cset # {} /\ cset # SINUS_RHYTHM THEN 1 ELSE 0]

\* one iteration of the tally loop
\* TallyRecord with the three Borderline tests chained by elif
TallyRecordFirstBorderline(t, cset) ==
    LET k == Category(cset)
        border == k = "Borderline"
        arr == k = "Arrhythmia"
        brady == "426177001" \in cset
        tachy == "427084000" \in cset
    IN [n_unlabeled |-> t.n_unlabeled + B(k = "Unlabeled"),
        n_normal    |-> t.n_normal + B(k = "Normal"),
        n_border    |-> t.n_border + B(border),
        b_brady     |-> t.b_brady + B(border /\ brady),
        b_tachy     |-> t.b_tachy + B(border /\ ~brady /\ tachy),
        b_irreg     |-> t.b_irreg + B(border /\ ~brady /\ ~tachy /\ "427393009" \in cset),
        n_arr       |-> t.n_arr + B(arr),
        a_afafl     |-> t.a_afafl + B(arr /\ SubBucket(cset) = "AF/AFL"),
        a_blocks    |-> t.a_blocks + B(arr /\ SubBucket(cset) = "Blocks"),
        a_stt       |-> t.a_stt + B(arr /\ SubBucket(cset) = "ST/T changes")]

TallyRecord(t, cset) ==
    LET k == Category(cset)
        border == k = "Borderline"
        arr == k = "Arrhythmia"
    IN [n_unlabeled |-> t.n_unlabeled + B(k = "Unlabeled"),
        n_normal    |-> t.n_normal + B(k = "Normal"),
        n_border    |-> t.n_border + B(border),
        b_brady     |-> t.b_brady + B(border /\ "426177001" \in cset),
        b_tachy     |-> t.b_tachy + B(border /\ "427084000" \in cset),
        b_irreg     |-> t.b_irreg + B(border /\ "427393009" \in cset),
        n_arr       |-> t.n_arr + B(arr),
        a_afafl     |-> t.a_afafl + B(arr /\ SubBucket(cset) = "AF/AFL"),
        a_blocks    |-> t.a_blocks + B(arr /\ SubBucket(cset) = "Blocks"),
        a_stt       |-> t.a_stt + B(arr /\ SubBucket(cset) = "ST/T changes")]

NormalSplit(t, rc) ==
    [normal |-> t.n_normal, borderline |-> t.n_border, arrhythmia |-> t.n_arr,
     unlabeled |-> t.n_unlabeled, total |-> Len(rc)]

BorderlineBreakdown(t) ==
    << [sub |-> "Sinus Bradycardia", count |-> t.b_brady],
       [sub |-> "Sinus Tachycardia", count |-> t.b_tachy],
       [sub |-> "Sinus Irregularity", count |-> t.b_irreg] >>

ArrhythmiaBreakdown(t) ==
    LET a_other == Max(0, t.n_arr - (t.a_afafl + t.a_blocks + t.a_stt))
    IN << [sub |-> "AF/AFL", count |-> t.a_afafl],
          [sub |-> "Blocks", count |-> t.a_blocks],
          [sub |-> "ST/T changes", count |-> t.a_stt],
          [sub |-> "Other", count |-> a_other] >>

\* the records the per-code loop does not skip
CountsAsArrhythmia(cset) ==
    ~(cset = {}) /\ ~(cset = SINUS_RHYTHM) /\ ~(cset \subseteq BORDERLINE_ONLY)

\* IsArrhythmiaCode with the filter left out
IsArrhythmiaCodeAny(c) == TRUE

\* the code filter of the per-code loop
IsArrhythmiaCode(c) == c \notin SINUS_RHYTHM /\ c \notin BORDERLINE_ONLY

\* for c in cset, in the order the set iterates: arr_per_code[c] += 1
RECURSIVE CountCodes(_, _)
CountCodes(apc, order) ==
    IF order = <<>> THEN apc
    ELSE CountCodes(IF IsArrhythmiaCode(Head(order)) THEN Inc(apc, Head(order)) ELSE apc,
                    Tail(order))

----------------------------------------------------------------------------
(* The example preview *)

\* WFDB.rglob("JS*.hea")
IsJS(stem) == stem \in {"JS1", "JS2", "JS3", "JS4", "JS7"}

JSFiles(files) == SelectSeq(files, LAMBDA f : IsJS(f.stem))

\* s.split(","): the pieces between commas, empty ones kept
RECURSIVE CommaPieces(_, _)
CommaPieces(lex, cur) ==
    IF lex = <<>> THEN <<cur>>
    ELSE IF Head(lex) = "," THEN <<cur>> \o CommaPieces(Tail(lex), <<>>)
    ELSE CommaPieces(Tail(lex), Append(cur, Head(lex)))

RECURSIVE Strip(_)
Strip(p) ==
    IF p = <<>> THEN p
    ELSE IF Head(p) = " " THEN Strip(Tail(p))
    ELSE IF p[Len(p)] = " " THEN Strip(SubSeq(p, 1, Len(p) - 1))
    ELSE p

RECURSIVE StripAll(_)
StripAll(ps) == IF ps = <<>> THEN <<>> ELSE <<Strip(Head(ps))>> \o StripAll(Tail(ps))

\* [c.strip() for c in dx_line.split(":", 1)[1].split(",") if c.strip()], [] without a #Dx line
ExampleCodes(lines) ==
    LET dx == SelectSeq(lines, StartsWithDx)
    IN IF dx = <<>> THEN <<>>
       ELSE SelectSeq(StripAll(CommaPieces(Tail(dx[1]), <<>>)), LAMBDA p : p # <<>>)

LabelRow(p, listed) ==
    [Snomed_CT |-> p,
     Full_Name |-> IF Len(p) = 1 /\ p[1] \in listed THEN <<"name of", p[1]>>
                   ELSE <<"(unmapped)">>]

ExampleLabels(f, listed) ==
    LET cs == ExampleCodes(f.lines)
    IN [r \in 1..Len(cs) |-> LabelRow(cs[r], listed)]

----------------------------------------------------------------------------
(* The output directory *)

Artifacts == {"metrics", "top_codes", "normal_split", "borderline_breakdown",
              "arrhythmia_breakdown", "arrhythmia_subtypes",
              "example_record", "example_labels"}

Absent == [st |-> "absent", body |-> <<>>]

Stale == [st |-> "stale", body |-> <<>>]

\* write_text / to_csv / savefig: the file holds exactly the new content
Write(body) == [st |-> "written", body |-> body]

----------------------------------------------------------------------------
(* The inputs of the model *)

FirstLine(n_sig, fs, nsamp) == <<"rec", " ", n_sig, " ", fs, " ", nsamp>>

SignalLine == <<"rec.mat", " ", "16+24", " ", "1000/mV">>

AgeLine == <<"#", "Age", ":", " ", "85">>

DxLine(c1, c2) == <<"#Dx:", " ", c1, ",", c2>>

Catalog ==
    { [stem |-> "JS1", mat |-> TRUE,
       lines |-> <<FirstLine("12", "500", "5000"), SignalLine, AgeLine,
                   <<"#Dx:", " ", "426783006">> >>],
      [stem |-> "JS2", mat |-> TRUE,
       lines |-> <<FirstLine("1", "250", "5000"), DxLine("426783006", "164889003")>>],
      [stem |-> "JS3", mat |-> FALSE,
       lines |-> <<AgeLine, FirstLine("12", "500", "5000"),
                   DxLine("426177001", "427084000")>>],
      [stem |-> "JS4", mat |-> TRUE,
       lines |-> <<FirstLine("12", "0", "5000"), DxLine("164889003", "270492004")>>],
      [stem |-> "JS2", mat |-> TRUE,
       lines |-> <<<<"rec", " ", "12">>, DxLine("164889003", "164889003")>>],
      [stem |-> "X6", mat |-> TRUE,
       lines |-> <<AgeLine, <<"#Dx:">> >>],
      [stem |-> "JS7", mat |-> FALSE,
       lines |-> <<FirstLine("twelve", "500", "5000"), AgeLine>>] }

Listings == { {"426783006", "164889003"}, {"164889003", "426177001", "17338001"} }

TopNs == {-1} \cup 0..MaxTopN

ZeroStats == [fs_counts |-> <<>>, lead_counts |-> <<>>, dur_secs |-> <<>>, bad_headers |-> 0]

\* the dashboard before it is started
DashOff == [pc |-> "off", failed |-> "none", src |-> "none", png |-> <<>>, labels |-> <<>>]

\* the interpreter's state when the script starts
Fresh ==
    /\ pc = "start"
    /\ i = 1
    /\ all_codes = {}
    /\ codes_all = <<>>
    /\ found_codes = {}
    /\ metrics = <<>>
    /\ freq = <<>>
    /\ stats = ZeroStats
    /\ record_codes = <<>>
    /\ tally = ZeroTally
    /\ arr_per_code = <<>>

Init ==
    /\ hea \in UNION {[1..n -> Catalog] : n \in 0..MaxFiles}
    /\ cond \in {[exists |-> FALSE, codes |-> {}]}
                \cup {[exists |-> TRUE, codes |-> l] : l \in Listings}
    /\ topn \in TopNs
    /\ \/ outdir = FALSE /\ out = [a \in Artifacts |-> Absent]
       \/ outdir = TRUE /\ out = [a \in Artifacts |-> Stale]
    /\ Fresh
    /\ argsort = {}
    /\ run = 1
    /\ prev = [pc |-> "none", out |-> [a \in Artifacts |-> Absent]]
    /\ dash = DashOff

----------------------------------------------------------------------------
(* The script, step by step *)

\* LoadMapping that takes a missing mapping file for an empty mapping
LoadMappingLenient ==
    /\ pc = "start"
    /\ outdir' = TRUE
    /\ all_codes' = cond.codes
    /\ pc' = "collect"
    /\ UNCHANGED <<inputs, out, i, codes_all, found_codes, metrics, freq, stats,
                   record_codes, tally, arr_per_code, argsort, run, prev, dash>>

\* OUT.mkdir, then pd.read_csv(COND): a missing file raises and ends the run
LoadMapping ==
    /\ pc = "start"
    /\ outdir' = TRUE
    /\ \/ /\ cond.exists
          /\ all_codes' = cond.codes
          /\ pc' = "collect"
       \/ /\ ~cond.exists
          /\ all_codes' = all_codes
          /\ pc' = "aborted"
    /\ UNCHANGED <<inputs, out, i, codes_all, found_codes, metrics, freq, stats,
                   record_codes, tally, arr_per_code, argsort, run, prev, dash>>

\* the first pass over the headers, the coverage metrics, metrics.json
Collect ==
    /\ pc = "collect"
    /\ codes_all' = CollectCodes(hea)
    /\ found_codes' = Range(codes_all')
    /\ metrics' = <<Coverage(found_codes', all_codes)>>
    /\ out' = [out EXCEPT !["metrics"] = Write(metrics')]
    /\ pc' = "top"
    /\ UNCHANGED <<inputs, outdir, i, all_codes, freq, stats, record_codes, tally,
                   arr_per_code, argsort, run, prev, dash>>

\* freq, top_df, top_codes.csv
TopCodes ==
    /\ pc = "top"
    /\ freq' = Counter(codes_all)
    /\ \E perm \in Answers(argsort, CountsOf(freq')) :
          /\ argsort' = argsort \cup {<<CountsOf(freq'), perm>>}
          /\ out' = [out EXCEPT !["top_codes"] = Write(TopDf(freq', perm, topn, all_codes))]
    /\ pc' = "parse"
    /\ i' = 1
    /\ UNCHANGED <<inputs, outdir, all_codes, codes_all, found_codes, metrics, stats,
                   record_codes, tally, arr_per_code, run, prev, dash>>

\* one header of the parse loop
Parse ==
    /\ pc = "parse"
    /\ i <= Len(hea)
    /\ stats' = ParseHeader(stats, hea[i])
    /\ i' = i + 1
    /\ UNCHANGED <<inputs, out, outdir, pc, all_codes, codes_all, found_codes, metrics,
                   freq, record_codes, tally, arr_per_code, argsort, run, prev, dash>>

\* after the parse loop: metrics.update, metrics.json rewritten
FinishParse ==
    /\ pc = "parse"
    /\ i > Len(hea)
    /\ metrics' = Append(metrics, MetricsUpdate(hea, stats))
    /\ out' = [out EXCEPT !["metrics"] = Write(metrics')]
    /\ pc' = "records"
    /\ UNCHANGED <<inputs, outdir, i, all_codes, codes_all, found_codes, freq, stats,
                   record_codes, tally, arr_per_code, argsort, run, prev, dash>>

\* the third pass over the headers
Records ==
    /\ pc = "records"
    /\ record_codes' = BuildRecordCodes(<<>>, hea)
    /\ pc' = "tally"
    /\ i' = 1
    /\ UNCHANGED <<inputs, out, outdir, all_codes, codes_all, found_codes, metrics, freq,
                   stats, tally, arr_per_code, argsort, run, prev, dash>>

\* one record of the tally loop
Tally ==
    /\ pc = "tally"
    /\ i <= Len(record_codes)
    /\ tally' = TallyRecord(tally, record_codes[i].codes)
    /\ i' = i + 1
    /\ UNCHANGED <<inputs, out, outdir, pc, all_codes, codes_all, found_codes, metrics,
                   freq, stats, record_codes, arr_per_code, argsort, run, prev, dash>>

\* normal_split.json and the two breakdown tables
WriteSplit ==
    /\ pc = "tally"
    /\ i > Len(record_codes)
    /\ out' = [out EXCEPT
                 !["normal_split"] = Write(<<NormalSplit(tally, record_codes)>>),
                 !["borderline_breakdown"] = Write(BorderlineBreakdown(tally)),
                 !["arrhythmia_breakdown"] = Write(ArrhythmiaBreakdown(tally))]
    /\ pc' = "arr"
    /\ i' = 1
    /\ UNCHANGED <<inputs, outdir, all_codes, codes_all, found_codes, metrics, freq,
                   stats, record_codes, tally, arr_per_code, argsort, run, prev, dash>>

\* one record of the per-code loop; the set iterates in an order of its own
ArrCount ==
    /\ pc = "arr"
    /\ i <= Len(record_codes)
    /\ \/ /\ CountsAsArrhythmia(record_codes[i].codes)
          /\ \E order \in Orders(record_codes[i].codes) :
                arr_per_code' = CountCodes(arr_per_code, order)
       \/ /\ ~CountsAsArrhythmia(record_codes[i].codes)
          /\ arr_per_code' = arr_per_code
    /\ i' = i + 1
    /\ UNCHANGED <<inputs, out, outdir, pc, all_codes, codes_all, found_codes, metrics,
                   freq, stats, record_codes, tally, argsort, run, prev, dash>>

\* arr_df and arrhythmia_subtypes.csv; pd.DataFrame([]) has no "Snomed_CT"
\* column, so with no arrhythmia code the assign raises KeyError
WriteArr ==
    /\ pc = "arr"
    /\ i > Len(record_codes)
    /\ \/ /\ arr_per_code = <<>>
          /\ pc' = "crashed"
          /\ UNCHANGED <<out, argsort>>
       \/ /\ arr_per_code # <<>>
          /\ \E perm \in Answers(argsort, CountsOf(arr_per_code)) :
                /\ argsort' = argsort \cup {<<CountsOf(arr_per_code), perm>>}
                /\ out' = [out EXCEPT !["arrhythmia_subtypes"] =
                                          Write(ArrDf(arr_per_code, perm, all_codes))]
          /\ pc' = "example"
    /\ UNCHANGED <<inputs, outdir, i, all_codes, codes_all, found_codes, metrics, freq,
                   stats, record_codes, tally, arr_per_code, run, prev, dash>>

\* Example without the try/except: a failure ends the script
ExampleUnguarded ==
    /\ pc = "example"
    /\ \/ /\ UNCHANGED out
          /\ pc' = "crashed"
       \/ /\ JSFiles(hea) # <<>> /\ JSFiles(hea)[1].mat
          /\ out' = [out EXCEPT !["example_record"] = Write(<<JSFiles(hea)[1].stem>>)]
          /\ pc' = "crashed"
       \/ /\ JSFiles(hea) # <<>> /\ JSFiles(hea)[1].mat
          /\ out' = [out EXCEPT !["example_record"] = Write(<<JSFiles(hea)[1].stem>>),
                       !["example_labels"] = Write(ExampleLabels(JSFiles(hea)[1], all_codes))]
          /\ pc' = "done"
    /\ UNCHANGED <<inputs, outdir, i, all_codes, codes_all, found_codes, metrics, freq,
                   stats, record_codes, tally, arr_per_code, argsort, run, prev, dash>>

\* the try block of the example preview: it ends before the image is saved
\* (import, no JS* header, rdrecord, plot), after it, or with both files written
Example ==
    /\ pc = "example"
    /\ \/ UNCHANGED out
       \/ /\ JSFiles(hea) # <<>> /\ JSFiles(hea)[1].mat
          /\ out' = [out EXCEPT !["example_record"] = Write(<<JSFiles(hea)[1].stem>>)]
       \/ /\ JSFiles(hea) # <<>> /\ JSFiles(hea)[1].mat
          /\ out' = [out EXCEPT
                       !["example_record"] = Write(<<JSFiles(hea)[1].stem>>),
                       !["example_labels"] = Write(ExampleLabels(JSFiles(hea)[1], all_codes))]
    /\ pc' = "done"
    /\ UNCHANGED <<inputs, outdir, i, all_codes, codes_all, found_codes, metrics, freq,
                   stats, record_codes, tally, arr_per_code, argsort, run, prev, dash>>

Next ==
    \/ LoadMapping
    \/ Collect
    \/ TopCodes
    \/ Parse
    \/ FinishParse
    \/ Records
    \/ Tally
    \/ WriteSplit
    \/ ArrCount
    \/ WriteArr
    \/ Example

Spec == Init /\ [][Next]_vars

----------------------------------------------------------------------------
(* Running the script again on the same input and output directory *)

Ended == pc \in {"done", "aborted", "crashed"}

Rerun ==
    /\ Ended
    /\ dash.pc = "off"
    /\ run < MaxRuns
    /\ run' = run + 1
    /\ prev' = [pc |-> pc, out |-> out]
    /\ pc' = "start"
    /\ i' = 1
    /\ all_codes' = {}
    /\ codes_all' = <<>>
    /\ found_codes' = {}
    /\ metrics' = <<>>
    /\ freq' = <<>>
    /\ stats' = ZeroStats
    /\ record_codes' = <<>>
    /\ tally' = ZeroTally
    /\ arr_per_code' = <<>>
    /\ out' = [a \in Artifacts |->
                 IF out[a].st = "absent" THEN out[a] ELSE [out[a] EXCEPT !.st = "stale"]]
    /\ UNCHANGED <<inputs, outdir, argsort, dash>>

NextRerun == Next \/ Rerun

SpecRerun == Init /\ [][NextRerun]_vars

----------------------------------------------------------------------------
(* The dashboard (dashboard/app.py), started on the output directory *)

Exists(f) == f.st # "absent"

\* base64.b64encode(png_file.read_bytes()).decode("ascii")
B64(f) == <<"base64", f.st, f.body>>

\* pd.read_csv(csv_file)
ReadCsv(f) == <<"table", f.st, f.body>>

\* the steps of the fallback's try block, in order
FallbackSteps == <<"rdrecord", "plot_wfdb", "savefig", "read_hea", "read_csv">>

\* the record the fallback reads: WFDBRecords/01/010/JS00001
FallbackFiles(files) == SelectSeq(files, LAMBDA f : f.stem = "JS1")

\* The first step of the fallback that raises: a step the environment makes
\* fail (envfail), rdrecord without the record or its .mat file, read_csv
\* without the mapping file; "none" when every step succeeds.
FirstFailure(files, cnd, envfail) ==
    LET fails(step) ==
            \/ step = envfail
            \/ step = "rdrecord" /\ (FallbackFiles(files) = <<>> \/ ~FallbackFiles(files)[1].mat)
            \/ step = "read_csv" /\ ~cnd.exists
        bad == {n \in 1..Len(FallbackSteps) : fails(FallbackSteps[n])}
    IN IF bad = {} THEN "none"
       ELSE FallbackSteps[CHOOSE n \in bad : \A m \in bad : n <= m]

\* labels of the fallback: the mapping rows of the record's codes, then one
\* "(unmapped)" row for each code the mapping does not list
FallbackLabels(f, cnd) ==
    LET cs == ExampleCodes(f.lines)
        listed == {c \in cnd.codes : <<c>> \in Range(cs)}
    IN <<"table", "fallback",
         [mapped |-> listed,
          unmapped |-> {cs[n] : n \in {m \in 1..Len(cs) :
                                        ~(Len(cs[m]) = 1 /\ cs[m][1] \in listed)}}]>>

\* render_example_png with the except clause around the image steps only
RenderExamplePngNarrowTry(o, files, cnd, envfail) ==
    IF Exists(o["example_record"]) /\ Exists(o["example_labels"])
    THEN [pc |-> "rendered", failed |-> "none", src |-> "prerendered",
          png |-> B64(o["example_record"]), labels |-> ReadCsv(o["example_labels"])]
    ELSE LET failed == FirstFailure(files, cnd, envfail)
         IN IF failed = "none"
            THEN [pc |-> "rendered", failed |-> "none", src |-> "fallback",
                  png |-> <<"base64", "rendered", <<"JS1">> >>,
                  labels |-> FallbackLabels(FallbackFiles(files)[1], cnd)]
            ELSE IF failed \in {"read_hea", "read_csv"}
            THEN [pc |-> "raised", failed |-> failed, src |-> "none",
                  png |-> <<>>, labels |-> <<>>]
            ELSE [pc |-> "rendered", failed |-> failed, src |-> "empty",
                  png |-> <<>>, labels |-> <<"table", "empty", <<>> >>]

\* render_example_png: what it returns
RenderExamplePng(o, files, cnd, envfail) ==
    IF Exists(o["example_record"]) /\ Exists(o["example_labels"])
    THEN [pc |-> "rendered", failed |-> "none", src |-> "prerendered",
          png |-> B64(o["example_record"]), labels |-> ReadCsv(o["example_labels"])]
    ELSE LET failed == FirstFailure(files, cnd, envfail)
         IN IF failed = "none"
            THEN [pc |-> "rendered", failed |-> "none", src |-> "fallback",
                  png |-> <<"base64", "rendered", <<"JS1">> >>,
                  labels |-> FallbackLabels(FallbackFiles(files)[1], cnd)]
            ELSE [pc |-> "rendered", failed |-> failed, src |-> "empty",
                  png |-> <<>>, labels |-> <<"table", "empty", <<>> >>]

\* the artifacts the module reads before render_example_png, outside any try
LoadedAtImport == {"metrics", "top_codes", "normal_split", "arrhythmia_subtypes"}

\* The dashboard is started after a run of the script has ended: the module
\* loads the artifacts, then calls render_example_png.
DashStart ==
    /\ Ended
    /\ dash.pc = "off"
    /\ \/ /\ \E a \in LoadedAtImport : ~Exists(out[a])
          /\ dash' = [DashOff EXCEPT !.pc = "load_failed"]
       \/ /\ \A a \in LoadedAtImport : Exists(out[a])
          /\ \E envfail \in {"none"} \cup Range(FallbackSteps) :
                dash' = RenderExamplePng(out, hea, cond, envfail)
    /\ UNCHANGED <<inputs, out, outdir, pc, i, all_codes, codes_all, found_codes, metrics,
                   freq, stats, record_codes, tally, arr_per_code, argsort, run, prev>>

NextDash == Next \/ DashStart

SpecDash == Init /\ [][NextDash]_vars

----------------------------------------------------------------------------
(* One header carrying any set of codes: the inputs of the classifier *)

ClassifyUniverse ==
    SINUS_RHYTHM \cup BORDERLINE_ONLY \cup {"164889003", "999"}

\* the text of a #Dx line listing the codes of S, each followed by a comma
RECURSIVE CodeList(_)
CodeList(S) ==
    IF S = {} THEN <<>>
    ELSE LET c == CHOOSE x \in S : TRUE
         IN <<" ", c, ",">> \o CodeList(S \ {c})

InitClassify ==
    /\ hea \in {<< [stem |-> "JS1", mat |-> TRUE,
                    lines |-> <<FirstLine("12", "500", "5000"), <<"#Dx:">> \o CodeList(S)>>] >>
                : S \in SUBSET ClassifyUniverse}
    /\ cond = [exists |-> TRUE, codes |-> {"426783006", "164889003"}]
    /\ topn = MaxTopN
    /\ outdir = FALSE
    /\ out = [a \in Artifacts |-> Absent]
    /\ Fresh
    /\ argsort = {}
    /\ run = 1
    /\ prev = [pc |-> "none", out |-> [a \in Artifacts |-> Absent]]
    /\ dash = DashOff

SpecClassify == InitClassify /\ [][Next]_vars

----------------------------------------------------------------------------
(* One or two headers carrying codes of the arrhythmia groups *)

\* one code of AF_AFL, one of BLOCKS, one of ST_T and one of no group
SubtypeUniverse == {"164889003", "270492004", "429622005", "999"}

SubtypeHeader(stem, S) ==
    [stem |-> stem, mat |-> TRUE,
     lines |-> <<FirstLine("12", "500", "5000"), <<"#Dx:">> \o CodeList(S)>>]

InitSubtype ==
    /\ hea \in {<<SubtypeHeader("JS1", S)>> : S \in SUBSET SubtypeUniverse}
               \cup {<<SubtypeHeader("JS1", S), SubtypeHeader("JS2", T)>> :
                        S \in SUBSET SubtypeUniverse, T \in SUBSET SubtypeUniverse}
    /\ cond = [exists |-> TRUE, codes |-> {"426783006", "164889003"}]
    /\ topn = MaxTopN
    /\ outdir = FALSE
    /\ out = [a \in Artifacts |-> Absent]
    /\ Fresh
    /\ argsort = {}
    /\ run = 1
    /\ prev = [pc |-> "none", out |-> [a \in Artifacts |-> Absent]]
    /\ dash = DashOff

SpecSubtype == InitSubtype /\ [][Next]_vars

----------------------------------------------------------------------------
(* Properties *)

\* the run is past the point named
AfterCollect == pc \in {"top", "parse", "records", "tally", "arr", "example", "done", "crashed"}

AfterTop == pc \in {"parse", "records", "tally", "arr", "example", "done", "crashed"}

AfterRecords == pc \in {"tally", "arr", "example", "done", "crashed"}

AfterSplit == pc \in {"arr", "example", "done", "crashed"}

AfterArr == pc \in {"example", "done"}

\* the records the tally loop has gone through
Tallied == IF pc = "tally" THEN 1..(i - 1)
           ELSE IF AfterSplit THEN 1..Len(record_codes) ELSE {}

InCategory(S, k) == Cardinality({n \in S : Category(record_codes[n].codes) = k})

\* C1: the four category counts written to normal_split.json add up to total,
\* total is the number of records of the per-record mapping, and each record
\* the tally loop has gone through is counted in its one category and no other.
C1_CountsPartition ==
    /\ (pc = "tally" \/ AfterSplit) =>
          /\ tally.n_normal = InCategory(Tallied, "Normal")
          /\ tally.n_border = InCategory(Tallied, "Borderline")
          /\ tally.n_arr = InCategory(Tallied, "Arrhythmia")
          /\ tally.n_unlabeled = InCategory(Tallied, "Unlabeled")
          /\ tally.n_normal + tally.n_border + tally.n_arr + tally.n_unlabeled
                = Cardinality(Tallied)
    /\ AfterSplit =>
          LET ns == out["normal_split"].body[1]
          IN /\ out["normal_split"].st = "written"
             /\ ns.total = Len(record_codes)
             /\ ns.normal + ns.borderline + ns.arrhythmia + ns.unlabeled = ns.total

C1_Witness ==
    /\ pc = "done"
    /\ out["normal_split"].body[1].total = 2
    /\ out["normal_split"].body[1].normal = 1
    /\ out["normal_split"].body[1].arrhythmia = 1

\* the tally step counts the record in category field f and in no other
CountedOnlyAs(f) ==
    \A g \in {"n_normal", "n_border", "n_arr", "n_unlabeled"} :
        tally'[g] = tally[g] + (IF g = f THEN 1 ELSE 0)

TallyStep == pc = "tally" /\ i <= Len(record_codes) /\ i' = i + 1

\* C2: a record whose code set is exactly {426783006} is counted Normal; a
\* record whose code set is {426783006, x}, x any other code (a Borderline
\* code included), is counted Arrhythmia and neither Normal nor Borderline.
C2_NormalIsExact ==
    [][TallyStep =>
          LET cset == record_codes[i].codes
          IN /\ cset = {"426783006"} => CountedOnlyAs("n_normal")
             /\ \A x \in cset \ {"426783006"} :
                    cset = {"426783006", x} => CountedOnlyAs("n_arr")]_vars

C2_Witness ==
    /\ pc = "tally" /\ i = 2
    /\ record_codes[1].codes = {"426783006", "427084000"}
    /\ tally.n_arr = 1 /\ tally.n_normal = 0 /\ tally.n_border = 0

\* C3: a record whose code set is a non-empty subset of the three Borderline
\* codes is counted Borderline; such a set with one more code from outside the
\* three is counted Arrhythmia.
C3_BorderlineIsSubset ==
    [][TallyStep =>
          LET cset == record_codes[i].codes
              three == {"426177001", "427084000", "427393009"}
          IN /\ (cset # {} /\ cset \subseteq three) => CountedOnlyAs("n_border")
             /\ \A x \in cset \ three :
                    (cset \ {x} # {} /\ cset \ {x} \subseteq three)
                        => CountedOnlyAs("n_arr")]_vars

C3_Witness ==
    /\ pc = "tally" /\ i = 2
    /\ record_codes[1].codes = {"426177001", "427084000", "427393009", "999"}
    /\ tally.n_arr = 1 /\ tally.n_border = 0

\* C4: with found the codes met in the headers and listed the codes of the
\* mapping, n_missing + |found \cap listed| = n_listed, n_extra = |found \ listed|
\* and n_missing + n_found - n_extra = n_listed, in the metrics dict and in
\* metrics.json.
C4_CoverageAdds ==
    AfterCollect =>
        LET found == Range(CollectCodes(hea))
            listed == cond.codes
            InBoth == Cardinality(found \cap listed)
            Holds(m) == /\ m.n_missing + InBoth = m.n_listed
                        /\ m.n_extra = Cardinality(found \ listed)
                        /\ m.n_missing + m.n_found - m.n_extra = m.n_listed
        IN /\ Holds(metrics[1])
           /\ out["metrics"].st = "written"
           /\ Holds(out["metrics"].body[1])

C4_Witness ==
    /\ pc = "done"
    /\ out["metrics"].body[1].n_missing = 2
    /\ out["metrics"].body[1].n_extra = 1
    /\ out["metrics"].body[1].n_found = 2
    /\ out["metrics"].body[1].n_listed = 3

\* the rows of top_codes.csv
TopRows == out["top_codes"].body

TopSorted == \A r \in 1..(Len(TopRows) - 1) : TopRows[r].count >= TopRows[r + 1].count

\* no code left out of the table has a count greater than a code in it
TopKeepsGreatest ==
    \A c \in Keys(freq) \ {TopRows[r].Snomed_CT : r \in 1..Len(TopRows)} :
        \A r \in 1..Len(TopRows) : Get(freq, c) <= TopRows[r].count

\* C5 as claimed: for every N the table has at most N rows, its rows are in
\* non-increasing order of count and no left-out code has a greater count.
C5_TopN_AnyN ==
    AfterTop => /\ Len(TopRows) <= topn
                /\ TopSorted
                /\ TopKeepsGreatest

\* C5 as amended: at most N rows for every N >= 0; for a negative N the table
\* drops the last -N rows of the sorted list; for every N the rows are in
\* non-increasing order of count and no left-out code has a greater count.
C5_TopN ==
    AfterTop => /\ out["top_codes"].st = "written"
                /\ topn >= 0 => Len(TopRows) <= topn
                /\ topn < 0 => Len(TopRows) = Max(0, Len(freq) + topn)
                /\ \A r \in 1..Len(TopRows) :
                       TopRows[r].count = Get(freq, TopRows[r].Snomed_CT)
                /\ TopSorted
                /\ TopKeepsGreatest

C5_Witness ==
    /\ pc = "done"
    /\ topn = 1
    /\ Len(freq) = 3
    /\ Len(TopRows) = 1
    /\ TopRows[1].count = 2

\* the number of records whose code set contains c
RecordsWith(c) == Cardinality({n \in 1..Len(record_codes) : c \in record_codes[n].codes})

RECURSIVE SumOfSizes(_)
SumOfSizes(rc) ==
    IF rc = <<>> THEN 0 ELSE Cardinality(Head(rc).codes) + SumOfSizes(Tail(rc))

\* C6 as claimed: the frequency count of each code is the number of records
\* whose code set contains it, so the counts add up to the sum of the sizes of
\* the per-record code sets.
C6_FreqCountsRecords ==
    AfterRecords =>
        /\ \A c \in Keys(freq) : Get(freq, c) = RecordsWith(c)
        /\ Sum(CountsOf(freq)) = SumOfSizes(record_codes)

\* the count of c in arrhythmia_subtypes.csv, 0 when it has no row
ArrRows == out["arrhythmia_subtypes"].body

InTable(c) == IF \E r \in 1..Len(ArrRows) : ArrRows[r].Snomed_CT = c
              THEN (CHOOSE row \in Range(ArrRows) : row.Snomed_CT = c).count
              ELSE 0

\* the number of records classified Arrhythmia whose code set contains c
ArrhythmiaRecordsWith(c) ==
    Cardinality({n \in 1..Len(record_codes) :
                    /\ Category(record_codes[n].codes) = "Arrhythmia"
                    /\ c \in record_codes[n].codes})

CodesMet == UNION {record_codes[n].codes : n \in 1..Len(record_codes)}

\* C7 as claimed: for every code c the count of c in arrhythmia_subtypes.csv
\* is the number of Arrhythmia records whose code set contains c.
C7_PerCode_AnyCode ==
    AfterArr => \A c \in CodesMet : InTable(c) = ArrhythmiaRecordsWith(c)

\* C7 as amended: that equality for every code other than the Normal code and
\* the three Borderline codes; those four codes have no row, whatever records
\* carry them; every row is one code, once.
C7_PerCode ==
    AfterArr =>
        LET four == {"426783006", "426177001", "427084000", "427393009"}
        IN /\ out["arrhythmia_subtypes"].st = "written"
           /\ \A c \in (CodesMet \cup {ArrRows[r].Snomed_CT : r \in 1..Len(ArrRows)}) \ four :
                  InTable(c) = ArrhythmiaRecordsWith(c)
           /\ \A r \in 1..Len(ArrRows) : ArrRows[r].Snomed_CT \notin four
           /\ \A r, q \in 1..Len(ArrRows) : ArrRows[r].Snomed_CT = ArrRows[q].Snomed_CT => r = q

C7_Witness ==
    /\ pc = "done"
    /\ InTable("164889003") = 2
    /\ ArrhythmiaRecordsWith("426783006") = 1
    /\ InTable("426783006") = 0

CoreArtifacts == {"metrics", "top_codes", "normal_split", "borderline_breakdown",
                  "arrhythmia_breakdown", "arrhythmia_subtypes"}

\* C8 as claimed: a second complete run on the same input leaves each of the
\* six core artifacts exactly as the first complete run wrote it.
C8_RerunIdentical ==
    (run > 1 /\ pc = "done" /\ prev.pc = "done") =>
        \A a \in CoreArtifacts : out[a] = prev.out[a]

\* C9 as claimed: a header the parse loop counts as bad leaves lead_counts,
\* fs_counts and dur_secs as they were.
C9_BadHeaderSkipped ==
    [][(pc = "parse" /\ pc' = "parse" /\ stats'.bad_headers = stats.bad_headers + 1) =>
          /\ stats'.lead_counts = stats.lead_counts
          /\ stats'.fs_counts = stats.fs_counts
          /\ stats'.dur_secs = stats.dur_secs]_vars

\* C10: with the mapping CSV missing the run ends at the load, before any
\* header is read, and no artifact is created or changed.
C10_MissingMappingAborts ==
    ~cond.exists =>
        /\ pc \in {"start", "aborted"}
        /\ \A a \in Artifacts : out[a].st # "written"
        /\ codes_all = <<>> /\ found_codes = {} /\ freq = <<>>
        /\ stats = ZeroStats /\ record_codes = <<>> /\ i = 1

C10_Witness ==
    /\ pc = "aborted"
    /\ outdir
    /\ \A a \in Artifacts : out[a].st = "stale"

\* C11: render_example_png returns the pre-rendered image and labels when
\* example_record.png and example_labels.csv both exist; when either is
\* missing it tries the fallback, and when a step of the fallback fails it
\* returns an empty image string and an empty label table and does not raise.
C11_RenderExample ==
    dash.pc \notin {"off", "load_failed"} =>
        LET both == Exists(out["example_record"]) /\ Exists(out["example_labels"])
        IN /\ dash.pc = "rendered"
           /\ both => /\ dash.src = "prerendered"
                      /\ dash.png = B64(out["example_record"])
                      /\ dash.labels = ReadCsv(out["example_labels"])
           /\ ~both => dash.src \in {"fallback", "empty"}
           /\ (~both /\ dash.failed # "none") =>
                  /\ dash.src = "empty"
                  /\ dash.png = <<>>
                  /\ dash.labels = <<"table", "empty", <<>> >>
           /\ (~both /\ dash.failed = "none") => dash.src = "fallback"

\* the fallback failed while reading the header, after the image was made
C11_Witness ==
    /\ dash.pc = "rendered"
    /\ Exists(out["example_record"]) /\ ~Exists(out["example_labels"])
    /\ dash.failed = "read_hea"
    /\ dash.src = "empty"

\* C12 as claimed: when a run that follows another into the same output
\* directory has completed, every artifact present in the directory was
\* written by that run; nothing an earlier run left is still there.
C12_OnlyLatestRun ==
    (run > 1 /\ pc = "done") =>
        \A a \in Artifacts : Exists(out[a]) => out[a].st = "written"

\* the headers with no diagnostic code: no #Dx line, or #Dx lines with no codes
NoCodes(f) == FileCodes(f.lines) = <<>>

\* C13 as claimed: each header file is one record and each header without
\* codes is counted Unlabeled, so in normal_split.json total is the number of
\* header files and unlabeled is the number of headers without codes.
C13_OneRecordPerHeader ==
    AfterSplit =>
        /\ Len(record_codes) = Len(hea)
        /\ out["normal_split"].body[1].total = Len(hea)
        /\ out["normal_split"].body[1].unlabeled
              = Cardinality({n \in 1..Len(hea) : NoCodes(hea[n])})

\* the records counted Arrhythmia among those the tally loop has gone through
ArrTallied == {n \in Tallied : Category(record_codes[n].codes) = "Arrhythmia"}

\* the group of an Arrhythmia record: the first of AF/AFL, Blocks, ST/T it
\* has a code of, Other when it has a code of none
InGroup(n, g) ==
    LET cset == record_codes[n].codes
        af == cset \cap AF_AFL # {}
        bl == cset \cap BLOCKS # {}
        st == cset \cap ST_T # {}
    IN CASE g = "AF/AFL" -> af
         [] g = "Blocks" -> ~af /\ bl
         [] g = "ST/T changes" -> ~af /\ ~bl /\ st
         [] g = "Other" -> ~af /\ ~bl /\ ~st

GroupCount(g) == Cardinality({n \in ArrTallied : InGroup(n, g)})

\* C14: each Arrhythmia record is counted in exactly one of AF/AFL, Blocks,
\* ST/T changes, Other, the first it matches in that order; the four counts of
\* arrhythmia_breakdown.csv add up to the Arrhythmia count, and Other is the
\* difference itself, never the 0 of the clamp in its place.
C14_SubBuckets ==
    /\ (pc = "tally" \/ AfterSplit) =>
          /\ tally.a_afafl = GroupCount("AF/AFL")
          /\ tally.a_blocks = GroupCount("Blocks")
          /\ tally.a_stt = GroupCount("ST/T changes")
          /\ tally.n_arr - (tally.a_afafl + tally.a_blocks + tally.a_stt)
                = GroupCount("Other")
    /\ AfterSplit =>
          LET ab == out["arrhythmia_breakdown"].body
          IN /\ out["arrhythmia_breakdown"].st = "written"
             /\ \A r \in 1..4 : ab[r].count = GroupCount(ab[r].sub)
             /\ ab[4].count = tally.n_arr - (ab[1].count + ab[2].count + ab[3].count)
             /\ ab[1].count + ab[2].count + ab[3].count + ab[4].count
                   = out["normal_split"].body[1].arrhythmia

\* a record with an AF/AFL code and a Blocks code, and one with an ST/T code
\* and a code of no group
C14_Witness ==
    /\ pc = "done"
    /\ Len(record_codes) = 2
    /\ record_codes[1].codes = {"164889003", "270492004"}
    /\ record_codes[2].codes = {"429622005", "999"}
    /\ out["arrhythmia_breakdown"].body[1].count = 1
    /\ out["arrhythmia_breakdown"].body[2].count = 0
    /\ out["arrhythmia_breakdown"].body[3].count = 1
    /\ out["arrhythmia_breakdown"].body[4].count = 0

\* the place of code c in the order the codes were first met
Encounter(c) == CHOOSE n \in 1..Len(freq) : freq[n][1] = c

\* C15 as claimed: in top_codes.csv two codes of equal count stand in the
\* order they were first met in the headers, and of tied codes at the cut
\* the ones met first are the ones kept.
C15_TiesByEncounter ==
    AfterTop =>
        /\ \A r \in 1..Len(TopRows) : \A q \in 1..Len(TopRows) :
               (r < q /\ TopRows[r].count = TopRows[q].count) =>
                   Encounter(TopRows[r].Snomed_CT) < Encounter(TopRows[q].Snomed_CT)
        /\ \A c \in Keys(freq) \ {TopRows[r].Snomed_CT : r \in 1..Len(TopRows)} :
               \A r \in 1..Len(TopRows) :
                   TopRows[r].count = Get(freq, c) => Encounter(TopRows[r].Snomed_CT) < Encounter(c)

\* the records counted Borderline among those the tally loop has gone through
BorderTallied == {n \in Tallied : Category(record_codes[n].codes) = "Borderline"}

BorderWith(c) == Cardinality({n \in BorderTallied : c \in record_codes[n].codes})

\* C16: each Borderline record adds 1 to the sub-bucket of every Borderline
\* code it holds and to no other, so each sub-bucket is at most the
\* Borderline count, their sum is at least that count, and the sum equals the
\* count exactly when each Borderline record holds a single code.
C16_BorderlineBuckets ==
    (pc = "tally" \/ AfterSplit) =>
        LET total == tally.b_brady + tally.b_tachy + tally.b_irreg
        IN /\ tally.b_brady = BorderWith("426177001")
           /\ tally.b_tachy = BorderWith("427084000")
           /\ tally.b_irreg = BorderWith("427393009")
           /\ \A f \in {"b_brady", "b_tachy", "b_irreg"} : tally[f] <= tally.n_border
           /\ total >= tally.n_border
           /\ (total = tally.n_border)
                 <=> \A n \in BorderTallied : Cardinality(record_codes[n].codes) = 1
           /\ AfterSplit =>
                 /\ out["borderline_breakdown"] = Write(BorderlineBreakdown(tally))
                 /\ out["normal_split"].body[1].borderline = tally.n_border

\* one Borderline record holding all three Borderline codes
C16_Witness ==
    /\ pc = "crashed"
    /\ tally.n_border = 1
    /\ out["borderline_breakdown"].body[1].count = 1
    /\ out["borderline_breakdown"].body[2].count = 1
    /\ out["borderline_breakdown"].body[3].count = 1

AfterParse == pc \in {"records", "tally", "arr", "example", "done", "crashed"}

\* the headers the parse loop has gone through
Parsed == IF pc = "parse" THEN 1..(i - 1) ELSE IF AfterParse THEN 1..Len(hea) ELSE {}

\* a header of comment lines only, or with fewer than four tokens on its
\* first non-comment line
TooShort(f) ==
    \/ \A n \in 1..Len(f.lines) : StartsWithHash(f.lines[n])
    \/ \E n \in 1..Len(f.lines) :
          /\ ~StartsWithHash(f.lines[n])
          /\ \A m \in 1..(n - 1) : StartsWithHash(f.lines[m])
          /\ Cardinality({k \in 1..Len(f.lines[n]) : f.lines[n][k] # " "}) < 4

\* C17: the headers counted as parsed and the headers counted as bad are
\* together the headers gone through, so parsed_headers + bad_headers is the
\* number of header files when the parsing pass ends; a header of comment
\* lines only, or with fewer than four tokens on its first non-comment line,
\* is counted as bad and not as parsed.
C17_ParsedPlusBad ==
    /\ (pc = "parse" \/ AfterParse) =>
          /\ Len(stats.dur_secs) + stats.bad_headers = Cardinality(Parsed)
          /\ stats.bad_headers >= Cardinality({n \in Parsed : TooShort(hea[n])})
          /\ Len(stats.dur_secs) <= Cardinality({n \in Parsed : ~TooShort(hea[n])})
    /\ AfterParse =>
          /\ out["metrics"] = Write(metrics)
          /\ metrics[2].parsed_headers + metrics[2].bad_headers = Len(hea)

\* one header parsed, one header of comment lines only counted as bad
C17_Witness ==
    /\ pc = "done"
    /\ Len(hea) = 2
    /\ hea[2].stem = "X6"
    /\ out["metrics"].body[2].parsed_headers = 1
    /\ out["metrics"].body[2].bad_headers = 1

\* a step of the example block that ends without example_labels.csv written
ExampleFails == pc = "example" /\ pc' # "example" /\ out'["example_labels"].st # "written"

\* C18: when the example block fails, before the image is saved or after it,
\* the run still ends normally and the six core artifacts stay as the run
\* wrote them.
C18_ExampleFailureContained ==
    [][ExampleFails =>
          /\ pc' = "done"
          /\ \A a \in CoreArtifacts : out'[a] = out[a] /\ out'[a].st = "written"]_vars

\* the block failed after the image was saved: the image is there, the label
\* table is not, and the run has ended normally
C18_Witness ==
    /\ pc = "done"
    /\ out["example_record"].st = "written"
    /\ out["example_labels"].st = "absent"
    /\ \A a \in CoreArtifacts : out[a].st = "written"

====
